---- MODULE Spec2Model ----
(***************************************************************************)
(* Model of the lexer in src/lexer/lexer.rs: a byte cursor over an input   *)
(* buffer and the single public operation next_token.  Bytes are their     *)
(* ASCII codes, positions are 0-based as in the source (input[i] is        *)
(* written input[i + 1] on TLA+ sequences).                                *)
(***************************************************************************)
EXTENDS Integers, Sequences, FiniteSets, TLC

(* ---------------------------- bounds ----------------------------------- *)

\* longest input enumerated byte by byte over Alphabet
MaxLen == 3
\* most lexicon words concatenated into one input
MaxWords == 2
\* calls to next_token made beyond the length of the input
ExtraCalls == 3

(* ---------------------------- tokens ----------------------------------- *)

\* enum Token: a variant name and, for Ident and Int, the carried text
Tok(t) == [type |-> t, text |-> <<>>]

TokText(t, s) == [type |-> t, text |-> s]

(* ------------------------ byte classification -------------------------- *)

\* whitespace as space, tab, line feed and carriage return only
is_ascii_whitespace_no_ff(b) == b \in {32, 9, 10, 13}

\* u8::is_ascii_whitespace: space, tab, line feed, form feed, carriage return
is_ascii_whitespace(b) == b \in {32, 9, 10, 12, 13}

\* u8::is_ascii_alphabetic: 'A'..='Z' | 'a'..='z'
is_ascii_alphabetic(b) == (b >= 65 /\ b <= 90) \/ (b >= 97 /\ b <= 122)

\* u8::is_ascii_digit: '0'..='9'
is_ascii_digit(b) == b >= 48 /\ b <= 57

(* ------------------------------ inputs --------------------------------- *)

\* one or two representatives of every class the match in next_token tells
\* apart: NUL, space, newline, '=', '!', '<', '+', 'a', '_', '5', '@'
Alphabet == {0, 32, 10, 61, 33, 60, 43, 97, 95, 53, 64}

ShortInputs == UNION {[1..n -> Alphabet] : n \in 0..MaxLen}

\* the seven keywords, near-keywords, every punctuation and operator byte,
\* the two-byte operators, digits and the remaining whitespace bytes
Lexicon ==
  { <<102,110>>, <<108,101,116>>, <<116,114,117,101>>, <<102,97,108,115,101>>,
    <<105,102>>, <<101,108,115,101>>, <<114,101,116,117,114,110>>,
    <<108,101>>, <<108,101,116,115>>, <<76,101,116>>, <<120>>,
    <<123>>, <<125>>, <<40>>, <<41>>, <<44>>, <<59>>,
    <<43>>, <<45>>, <<47>>, <<42>>,
    <<61>>, <<33>>, <<60>>, <<62>>,
    <<61,61>>, <<33,61>>, <<60,61>>, <<62,61>>,
    <<49,48>>, <<32>>, <<9>>, <<11>>, <<12>>, <<13>>, <<95>> }

RECURSIVE WordInputs(_)
WordInputs(n) ==
  IF n = 0 THEN {<<>>}
  ELSE LET shorter == WordInputs(n - 1)
       IN shorter \cup {s \o w : s \in shorter, w \in Lexicon}

\* inputs of the tests: test_next_token, and the lines "let five = 5;" and
\* "5 != 10;" of test_next_token_two and test_next_token_three
TestInputs ==
  { <<61,43,40,41,123,125,44,59>>,
    <<108,101,116,32,102,105,118,101,32,61,32,53,59>>,
    <<53,32,33,61,32,49,48,59>> }

Inputs == ShortInputs \cup WordInputs(MaxWords) \cup TestInputs

(* ------------------------------ state ---------------------------------- *)

VARIABLES input, position, read_position, ch, panicked, calls

\* Repl::run: where the driver is ("lexer" when a lexer is used without the
\* driver, "read" before read_line, "scan" inside the token loop, "returned"
\* after run returned), the tokens printed since the last read_line, the
\* number of read_line calls made, and what run returned ("none" while it
\* runs)
VARIABLES pc, printed, reads, result

vars == <<input, position, read_position, ch, panicked, calls,
          pc, printed, reads, result>>

repl_vars == <<pc, printed, reads, result>>

\* struct Lexer as a value; ok is FALSE once an index or a slice was out of
\* bounds (the call panics instead of returning)
Lexer == [input |-> input, position |-> position,
          read_position |-> read_position, ch |-> ch, ok |-> ~panicked]

(* ---------------------------- primitives ------------------------------- *)

\* input[i]: the byte, or a panic when i is not below the length
Index(l, i) ==
  IF i < Len(l.input) THEN [ok |-> TRUE, val |-> l.input[i + 1]]
  ELSE [ok |-> FALSE, val |-> 0]

\* input[a..b]: the bytes a..b-1, or a panic unless a <= b <= len
Slice(l, a, b) ==
  IF a <= b /\ b <= Len(l.input)
  THEN [ok |-> TRUE, val |-> SubSeq(l.input, a + 1, b)]
  ELSE [ok |-> FALSE, val |-> <<>>]

\* read_char with the bounds test of line 59 dropped
read_char_unchecked(l) ==
  LET x == Index(l, l.read_position)
  IN [l EXCEPT !.ch = x.val,
               !.ok = l.ok /\ x.ok,
               !.position = l.read_position,
               !.read_position = l.read_position + 1]

\* read_char with read_position incremented before position is set
read_char_reordered(l) ==
  LET x == IF l.read_position >= Len(l.input)
           THEN [ok |-> TRUE, val |-> 0]
           ELSE Index(l, l.read_position)
  IN [l EXCEPT !.ch = x.val,
               !.ok = l.ok /\ x.ok,
               !.position = l.read_position + 1,
               !.read_position = l.read_position + 1]

read_char(l) ==
  LET x == IF l.read_position >= Len(l.input)
           THEN [ok |-> TRUE, val |-> 0]
           ELSE Index(l, l.read_position)
  IN [l EXCEPT !.ch = x.val,
               !.ok = l.ok /\ x.ok,
               !.position = l.read_position,
               !.read_position = l.read_position + 1]

\* peek_char reading at position instead of read_position
peek_char_current(l) ==
  IF l.position >= Len(l.input)
  THEN [ok |-> TRUE, val |-> 0]
  ELSE Index(l, l.position)

peek_char(l) ==
  IF l.read_position >= Len(l.input)
  THEN [ok |-> TRUE, val |-> 0]
  ELSE Index(l, l.read_position)

\* skip_whitespace with `if` in place of `while`
skip_whitespace_once(l) ==
  IF is_ascii_whitespace(l.ch) THEN read_char(l) ELSE l

RECURSIVE skip_whitespace(_)
skip_whitespace(l) ==
  IF is_ascii_whitespace(l.ch) THEN skip_whitespace(read_char(l)) ELSE l

RECURSIVE AdvanceWhileAlphabetic(_)
AdvanceWhileAlphabetic(l) ==
  IF is_ascii_alphabetic(l.ch) THEN AdvanceWhileAlphabetic(read_char(l)) ELSE l

RECURSIVE AdvanceWhileDigit(_)
AdvanceWhileDigit(l) ==
  IF is_ascii_digit(l.ch) THEN AdvanceWhileDigit(read_char(l)) ELSE l

\* String::from_utf8(..).unwrap(): bytes below 128 are one-byte UTF-8; the
\* inputs enumerated hold no byte of 128 or more
from_utf8(s) == [ok |-> \A k \in 1..Len(s) : s[k] < 128, val |-> s]

read_identifier(l) ==
  LET pos == l.position
      m == AdvanceWhileAlphabetic(l)
      s == Slice(m, pos, m.position)
      u == from_utf8(s.val)
  IN [lex |-> [m EXCEPT !.ok = m.ok /\ s.ok /\ u.ok], text |-> u.val]

read_number(l) ==
  LET pos == l.position
      m == AdvanceWhileDigit(l)
      s == Slice(m, pos, m.position)
      u == from_utf8(s.val)
  IN [lex |-> [m EXCEPT !.ok = m.ok /\ s.ok /\ u.ok], text |-> u.val]

StartsWith(s, k) == Len(s) >= Len(k) /\ SubSeq(s, 1, Len(k)) = k

\* the keyword match done on a prefix of the identifier
KeywordByPrefix(s) ==
  CASE StartsWith(s, <<102,110>>) -> Tok("Function")
    [] StartsWith(s, <<108,101,116>>) -> Tok("Let")
    [] StartsWith(s, <<116,114,117,101>>) -> Tok("True")
    [] StartsWith(s, <<102,97,108,115,101>>) -> Tok("False")
    [] StartsWith(s, <<105,102>>) -> Tok("If")
    [] StartsWith(s, <<101,108,115,101>>) -> Tok("Else")
    [] StartsWith(s, <<114,101,116,117,114,110>>) -> Tok("Return")
    [] OTHER -> TokText("Ident", s)

\* the match on ident.as_str() in next_token
Keyword(s) ==
  CASE s = <<102,110>> -> Tok("Function")
    [] s = <<108,101,116>> -> Tok("Let")
    [] s = <<116,114,117,101>> -> Tok("True")
    [] s = <<102,97,108,115,101>> -> Tok("False")
    [] s = <<105,102>> -> Tok("If")
    [] s = <<101,108,115,101>> -> Tok("Else")
    [] s = <<114,101,116,117,114,110>> -> Tok("Return")
    [] OTHER -> TokText("Ident", s)

\* the two-byte arms with the inner read_char done on both branches
TwoByteAlwaysAdvance(l, double, single) ==
  LET p == peek_char(l)
  IN IF p.val = 61
     THEN [lex |-> read_char([l EXCEPT !.ok = l.ok /\ p.ok]), tok |-> Tok(double)]
     ELSE [lex |-> read_char([l EXCEPT !.ok = l.ok /\ p.ok]), tok |-> Tok(single)]

\* the two-byte arms with the inner read_char left out
TwoByteNoAdvance(l, double, single) ==
  LET p == peek_char(l)
  IN IF p.val = 61
     THEN [lex |-> [l EXCEPT !.ok = l.ok /\ p.ok], tok |-> Tok(double)]
     ELSE [lex |-> [l EXCEPT !.ok = l.ok /\ p.ok], tok |-> Tok(single)]

\* the arms '=', '!', '<', '>': one more read_char when the lookahead is '='
TwoByte(l, double, single) ==
  LET p == peek_char(l)
  IN IF p.val = 61
     THEN [lex |-> read_char([l EXCEPT !.ok = l.ok /\ p.ok]), tok |-> Tok(double)]
     ELSE [lex |-> [l EXCEPT !.ok = l.ok /\ p.ok], tok |-> Tok(single)]

\* the trailing read_char of line 133 left out
TrailingNoAdvance(r) == r

\* the arms that fall through to the trailing read_char
Trailing(r) == [lex |-> read_char(r.lex), tok |-> r.tok]

Single(l, t) == [lex |-> l, tok |-> Tok(t)]

\* the identifier arm falling through to the trailing read_char
IdentArmTrailing(l) ==
  LET i == read_identifier(l)
  IN Trailing([lex |-> i.lex, tok |-> Keyword(i.text)])

\* the arm b'a'..=b'z' | b'A'..=b'Z' | b'_': returns without the trailing
\* read_char
IdentArm(l) ==
  LET i == read_identifier(l)
  IN [lex |-> i.lex, tok |-> Keyword(i.text)]

\* the arm b'0'..=b'9': returns without the trailing read_char
IntArm(l) ==
  LET n == read_number(l)
  IN [lex |-> n.lex, tok |-> TokText("Int", n.text)]

\* the arm 0 => Token::Eof
EofArm(l) == Trailing(Single(l, "Eof"))

\* the Illegal arm returning early, without the trailing read_char
IllegalArmNoAdvance(l) == Single(l, "Illegal")

\* the arm _ => Token::Illegal
IllegalArm(l) == Trailing(Single(l, "Illegal"))

\* next_token: the lexer after the call, the token returned and the
\* position classification happened at (after skip_whitespace)
next_token(l0) ==
  LET l == skip_whitespace(l0)
      c == l.ch
      r == CASE c = 123 -> Trailing(Single(l, "Lsquirly"))
             [] c = 125 -> Trailing(Single(l, "Rsquirly"))
             [] c = 40 -> Trailing(Single(l, "Lparen"))
             [] c = 41 -> Trailing(Single(l, "Rparen"))
             [] c = 44 -> Trailing(Single(l, "Comma"))
             [] c = 59 -> Trailing(Single(l, "Semicolon"))
             [] c = 61 -> Trailing(TwoByte(l, "Equal", "Assign"))
             [] c = 43 -> Trailing(Single(l, "Plus"))
             [] c = 45 -> Trailing(Single(l, "Minus"))
             [] c = 33 -> Trailing(TwoByte(l, "NotEqual", "Bang"))
             [] c = 47 -> Trailing(Single(l, "Slash"))
             [] c = 42 -> Trailing(Single(l, "Asterisk"))
             [] c = 60 -> Trailing(TwoByte(l, "LessThanOrEqual", "LessThan"))
             [] c = 62 -> Trailing(TwoByte(l, "GreaterThanOrEqual", "GreaterThan"))
             [] is_ascii_alphabetic(c) \/ c = 95 -> IdentArm(l)
             [] is_ascii_digit(c) -> IntArm(l)
             [] c = 0 -> EofArm(l)
             [] OTHER -> IllegalArm(l)
  IN [lex |-> r.lex, tok |-> r.tok, start |-> l.position]

\* Lexer::new
new(in) ==
  read_char([input |-> in, position |-> 0, read_position |-> 0, ch |-> 0,
             ok |-> TRUE])

(* ---------------------------- the machine ------------------------------ *)

Init ==
  /\ input \in Inputs
  /\ LET l == new(input)
     IN /\ position = l.position
        /\ read_position = l.read_position
        /\ ch = l.ch
        /\ panicked = ~l.ok
  /\ calls = <<>>
  /\ pc = "lexer" /\ printed = <<>> /\ reads = 0 /\ result = "none"

\* one call lexer.next_token(); calls records, per call, the cursor before
\* the call (pre), where classification happened (start), the cursor after
\* the call (post) and the token returned
NextToken ==
  /\ pc = "lexer"
  /\ ~panicked
  /\ Len(calls) < Len(input) + ExtraCalls
  /\ LET r == next_token(Lexer)
     IN /\ position' = r.lex.position
        /\ read_position' = r.lex.read_position
        /\ ch' = r.lex.ch
        /\ panicked' = ~r.lex.ok
        /\ calls' = Append(calls, [pre |-> position, start |-> r.start,
                                   post |-> r.lex.position, tok |-> r.tok])
  /\ UNCHANGED <<input, repl_vars>>

Next == NextToken

Spec == Init /\ [][Next]_vars

(* ----------------------------- the driver ------------------------------ *)

\* most read_line calls made by one run of the driver
MaxReads == 3

\* texts typed as lines: "", "==", "x 5", "@;", "_", "\0+", and the inputs
\* of the tests
LineTexts ==
  { <<>>, <<61,61>>, <<120,32,53>>, <<64,59>>, <<95>>, <<0,43>> } \cup TestInputs

\* what read_line can put in `line`: nothing at the end of standard input,
\* a line with its newline, or the last line ("let") without one
Lines ==
  {<<>>} \cup {t \o <<10>> : t \in LineTexts} \cup {<<108,101,116>>}

\* the driver leaving run with Ok at the end of standard input
AfterReadOkStopAtEnd(n) ==
  IF n = 0 THEN [pc |-> "returned", result |-> "Ok"]
  ELSE [pc |-> "scan", result |-> "none"]

\* where run goes after read_line returned Ok(n): into the token loop,
\* whatever n is
AfterReadOk(n) == [pc |-> "scan", result |-> "none"]

InitRepl ==
  /\ input = <<>> /\ position = 0 /\ read_position = 0 /\ ch = 0
  /\ panicked = FALSE /\ calls = <<>>
  /\ pc = "read" /\ printed = <<>> /\ reads = 0 /\ result = "none"

\* read_line returns Ok: a fresh Lexer over the line
ReadLine ==
  /\ pc = "read"
  /\ reads < MaxReads
  /\ \E line \in Lines :
       LET l == new(line)
           a == AfterReadOk(Len(line))
       IN /\ input' = line
          /\ position' = l.position
          /\ read_position' = l.read_position
          /\ ch' = l.ch
          /\ panicked' = ~l.ok
          /\ pc' = a.pc
          /\ result' = a.result
  /\ calls' = <<>>
  /\ printed' = <<>>
  /\ reads' = reads + 1

\* read_line returns Err: `?` returns it from run
ReadLineFails ==
  /\ pc = "read"
  /\ reads < MaxReads
  /\ pc' = "returned"
  /\ result' = "Err"
  /\ reads' = reads + 1
  /\ UNCHANGED <<input, position, read_position, ch, panicked, calls, printed>>

\* one turn of the inner loop: next_token, break on Eof, println otherwise
ScanToken ==
  /\ pc = "scan"
  /\ ~panicked
  /\ Len(calls) < Len(input) + ExtraCalls
  /\ LET r == next_token(Lexer)
     IN /\ position' = r.lex.position
        /\ read_position' = r.lex.read_position
        /\ ch' = r.lex.ch
        /\ panicked' = ~r.lex.ok
        /\ calls' = Append(calls, [pre |-> position, start |-> r.start,
                                   post |-> r.lex.position, tok |-> r.tok])
        /\ IF r.tok = Tok("Eof")
           THEN pc' = "read" /\ printed' = printed
           ELSE pc' = "scan" /\ printed' = Append(printed, r.tok)
  /\ UNCHANGED <<input, reads, result>>

NextRepl == ReadLine \/ ReadLineFails \/ ScanToken

SpecRepl == InitRepl /\ [][NextRepl]_vars

(* --------------------------- observations ------------------------------ *)

NCalls == Len(calls)

Returned(i, t) == calls[i].tok.type = t

EofReturned == \E i \in 1..NCalls : Returned(i, "Eof")

\* the byte at 0-based position p of the input, -1 when there is none
ByteAt(p) == IF p >= 0 /\ p < Len(input) THEN input[p + 1] ELSE -1

(* ------------------------------ C1 ..C4 --------------------------------- *)

\* C1: totality -- repeated calls of next_token return Eof after finitely
\* many calls; a call that returns a token other than Eof is a token of the
\* input, so by call number Len(input) + 1 an Eof has been returned.
C1_Totality == NCalls >= Len(input) + 1 => EofReturned

\* C2: whenever next_token returns Ident(s) or Int(s), s is non-empty.
C2_TextNonEmpty ==
  \A i \in 1..NCalls :
    calls[i].tok.type \in {"Ident", "Int"} => Len(calls[i].tok.text) >= 1

\* C3: progress -- every call of next_token strictly increases position,
\* and a call whose two-byte lookahead matched consumes exactly two bytes
\* after the skipped whitespace.
C3_Progress ==
  \A i \in 1..NCalls :
    /\ calls[i].post > calls[i].pre
    /\ calls[i].tok.type \in {"Equal", "NotEqual", "LessThanOrEqual",
                               "GreaterThanOrEqual"}
         => calls[i].post = calls[i].start + 2

\* C4: Eof is absorbing -- once a call has returned Eof, every later call
\* returns Eof, also for inputs holding a 0 byte before their end.
C4_EofAbsorbing ==
  \A i \in 1..NCalls : \A j \in i..NCalls :
    Returned(i, "Eof") => Returned(j, "Eof")

(* ------------------------------ C5, C6 ---------------------------------- *)

\* the end of the maximal run of bytes satisfying the class test that starts
\* at position p: the first position from p on that holds no such byte
AlphaRunEnd(p) ==
  CHOOSE e \in p..Len(input) :
    /\ \A k \in p..(e - 1) : is_ascii_alphabetic(ByteAt(k))
    /\ ~is_ascii_alphabetic(ByteAt(e))

AlphaRun(p) == SubSeq(input, p + 1, AlphaRunEnd(p))

KeywordSpelling ==
  [Function |-> <<102,110>>, Let |-> <<108,101,116>>,
   True |-> <<116,114,117,101>>, False |-> <<102,97,108,115,101>>,
   If |-> <<105,102>>, Else |-> <<101,108,115,101>>,
   Return |-> <<114,101,116,117,114,110>>]

KeywordNames == DOMAIN KeywordSpelling

\* C5: keyword/identifier partition -- when the token at the cursor is a
\* maximal run w of ASCII alphabetic bytes, next_token returns the keyword
\* variant iff w is exactly that keyword's spelling, and Ident(w) otherwise.
C5_KeywordPartition ==
  \A i \in 1..NCalls :
    is_ascii_alphabetic(ByteAt(calls[i].start)) =>
      LET w == AlphaRun(calls[i].start)
          t == calls[i].tok
      IN /\ \A k \in KeywordNames : (t = Tok(k)) <=> (w = KeywordSpelling[k])
         /\ (\A k \in KeywordNames : w # KeywordSpelling[k])
              => t = TokText("Ident", w)

\* "let five": the run "let" came back as the keyword and the run "five"
\* as an identifier carrying it
C5_Witness ==
  \E i \in 1..(NCalls - 1) :
    /\ calls[i].tok = Tok("Let") /\ AlphaRun(calls[i].start) = <<108,101,116>>
    /\ calls[i + 1].tok = TokText("Ident", <<102,105,118,101>>)

DoubleOf(b) ==
  CASE b = 61 -> Tok("Equal")
    [] b = 33 -> Tok("NotEqual")
    [] b = 60 -> Tok("LessThanOrEqual")
    [] b = 62 -> Tok("GreaterThanOrEqual")

\* C6: two-byte operator greediness -- when the byte under the cursor after
\* whitespace skipping is '=', '!', '<' or '>' and the next byte is '=',
\* next_token returns Equal, NotEqual, LessThanOrEqual or
\* GreaterThanOrEqual and consumes both bytes, whatever surrounds the pair.
C6_TwoByteGreedy ==
  \A i \in 1..NCalls :
    (ByteAt(calls[i].start) \in {61, 33, 60, 62} /\ ByteAt(calls[i].start + 1) = 61)
      => /\ calls[i].tok = DoubleOf(ByteAt(calls[i].start))
         /\ calls[i].post = calls[i].start + 2

\* "===": the pair was taken as Equal and the third '=' came back as Assign
C6_Witness ==
  /\ NCalls >= 2
  /\ calls[1].tok = Tok("Equal") /\ calls[1].post = 2
  /\ calls[2].tok = Tok("Assign")
  /\ ByteAt(0) = 61 /\ ByteAt(1) = 61 /\ ByteAt(2) = 61

(* ------------------------------ C7 -------------------------------------- *)

\* the tokens a lexer returns from state l, up to and including the first
\* Eof, in at most fuel calls
RECURSIVE RunToEof(_, _)
RunToEof(l, fuel) ==
  IF fuel = 0 THEN <<>>
  ELSE LET r == next_token(l)
       IN IF r.tok.type = "Eof" THEN <<r.tok>>
          ELSE <<r.tok>> \o RunToEof(r.lex, fuel - 1)

\* the tokens of a fresh lexer over in, up to and including the first Eof
TokensToEof(in) == RunToEof(new(in), Len(in) + 1)

FirstEof == CHOOSE i \in 1..NCalls : Returned(i, "Eof") /\ \A j \in 1..(i - 1) : ~Returned(j, "Eof")

\* the tokens returned so far, up to and including the first Eof
TokensReturnedToEof == [i \in 1..FirstEof |-> calls[i].tok]

\* runs of spaces, tabs and newlines
WsRuns == {<<32>>, <<9>>, <<10>>, <<32, 32>>, <<10, 9, 32>>}

\* in with the run w put in front of the byte at position p
InsertAt(in, p, w) == SubSeq(in, 1, p) \o w \o SubSeq(in, p + 1, Len(in))

\* in without the bytes at positions s..e-1
RemoveRange(in, s, e) == SubSeq(in, 1, s) \o SubSeq(in, e + 1, Len(in))

\* a run of spaces, tabs and newlines s..e-1 that call i skipped
SkippedRun(i, s, e) ==
  /\ calls[i].pre <= s /\ s < e /\ e <= calls[i].start
  /\ \A k \in s..(e - 1) : ByteAt(k) \in {32, 9, 10}

InsertionKeepsTokens ==
  \A i \in 1..(FirstEof - 1) : \A w \in WsRuns :
    TokensToEof(InsertAt(input, calls[i].post, w)) = TokensReturnedToEof

\* the bytes a and b would be scanned as one token when they touch
Joins(a, b) ==
  \/ is_ascii_alphabetic(a) /\ is_ascii_alphabetic(b)
  \/ is_ascii_digit(a) /\ is_ascii_digit(b)
  \/ a \in {61, 33, 60, 62} /\ b = 61

\* C7 as stated: whitespace transparency -- inserting a run of spaces, tabs
\* or newlines between two adjacent tokens, or removing such a run from
\* between two adjacent tokens, leaves the tokens returned up to and
\* including the first Eof unchanged.
C7_WhitespaceTransparency ==
  EofReturned =>
    /\ InsertionKeepsTokens
    /\ \A i \in 2..FirstEof : \A s \in 0..Len(input) : \A e \in 0..Len(input) :
         SkippedRun(i, s, e) =>
           TokensToEof(RemoveRange(input, s, e)) = TokensReturnedToEof

\* C7 amended: inserting such a run between two adjacent tokens leaves the
\* tokens unchanged; removing such a run from between two adjacent tokens
\* leaves them unchanged when the bytes that come to touch do not join
\* into one token (two letters, two digits, or '=', '!', '<', '>' before '=').
C7_InsertionTransparency ==
  EofReturned =>
    /\ InsertionKeepsTokens
    /\ \A i \in 2..FirstEof : \A s \in 0..Len(input) : \A e \in 0..Len(input) :
         (SkippedRun(i, s, e) /\ ~Joins(ByteAt(s - 1), ByteAt(e))) =>
           TokensToEof(RemoveRange(input, s, e)) = TokensReturnedToEof

\* the first Eof was returned after two tokens that touch and after a token
\* that a skipped run separates from bytes it does not join with
C7_Witness ==
  /\ EofReturned
  /\ \E i \in 2..(FirstEof - 1) : calls[i].pre = calls[i].start
  /\ \E i \in 2..(FirstEof - 1) :
       /\ SkippedRun(i, calls[i].pre, calls[i].start)
       /\ ~Joins(ByteAt(calls[i].pre - 1), ByteAt(calls[i].start))

(* ------------------------------ C8 -------------------------------------- *)

SingleBytes == {123, 125, 40, 41, 44, 59, 43, 45, 47, 42}

SingleOf(b) ==
  CASE b = 123 -> Tok("Lsquirly")
    [] b = 125 -> Tok("Rsquirly")
    [] b = 40 -> Tok("Lparen")
    [] b = 41 -> Tok("Rparen")
    [] b = 44 -> Tok("Comma")
    [] b = 59 -> Tok("Semicolon")
    [] b = 43 -> Tok("Plus")
    [] b = 45 -> Tok("Minus")
    [] b = 47 -> Tok("Slash")
    [] b = 42 -> Tok("Asterisk")

OnlySingleBytes == \A k \in 1..Len(input) : input[k] \in SingleBytes

\* C8: single-byte mapping -- when the byte under the cursor after
\* whitespace skipping is one of { } ( ) , ; + - / *, next_token returns
\* the matching variant and consumes exactly that byte, so an input of
\* such bytes yields one token per byte in input order and then Eof.
C8_SingleByteMapping ==
  /\ \A i \in 1..NCalls :
       ByteAt(calls[i].start) \in SingleBytes
         => /\ calls[i].tok = SingleOf(ByteAt(calls[i].start))
            /\ calls[i].post = calls[i].start + 1
  /\ (OnlySingleBytes /\ NCalls > Len(input))
       => /\ \A k \in 1..Len(input) : calls[k].tok = SingleOf(input[k])
          /\ calls[Len(input) + 1].tok = Tok("Eof")

\* an input of two different single-byte tokens scanned through to Eof
C8_Witness ==
  /\ OnlySingleBytes /\ Len(input) = 2 /\ NCalls = 3
  /\ calls[1].tok # calls[2].tok
  /\ calls[3].tok = Tok("Eof")

(* ------------------------------ C9 -------------------------------------- *)

\* a byte that no arm of the match but the last one takes
OtherByte(b) ==
  /\ b >= 0
  /\ ~is_ascii_whitespace(b)
  /\ b \notin SingleBytes \cup {61, 33, 60, 62}
  /\ ~is_ascii_alphabetic(b) /\ b # 95
  /\ ~is_ascii_digit(b)
  /\ b # 0

\* the first n tokens a lexer returns from state l
RECURSIVE Run(_, _)
Run(l, n) ==
  IF n = 0 THEN <<>>
  ELSE LET r == next_token(l)
       IN <<r.tok>> \o Run(r.lex, n - 1)

\* the bytes of the input from position p on
Remainder(p) == SubSeq(input, p + 1, Len(input))

\* C9: illegal bytes do not interrupt scanning -- a byte under the cursor
\* that is neither whitespace, punctuation, operator, letter, underscore,
\* digit nor 0 yields exactly one Illegal token and consumes exactly that
\* byte, and the tokens returned afterwards are those a fresh scanner
\* returns for the remainder of the input after that byte.
C9_IllegalDoesNotInterrupt ==
  \A i \in 1..NCalls :
    /\ OtherByte(ByteAt(calls[i].start)) <=> Returned(i, "Illegal")
    /\ Returned(i, "Illegal") =>
         /\ calls[i].tok = Tok("Illegal")
         /\ calls[i].post = calls[i].start + 1
         /\ [k \in 1..(NCalls - i) |-> calls[i + k].tok]
              = Run(new(Remainder(calls[i].start + 1)), NCalls - i)

\* "@" was followed by a token and the Eof: Illegal, a non-Eof token, Eof
C9_Witness ==
  \E i \in 1..(NCalls - 2) :
    /\ Returned(i, "Illegal") /\ ByteAt(calls[i].start) = 64
    /\ ~Returned(i + 1, "Eof") /\ ~Returned(i + 1, "Illegal")
    /\ Returned(i + 2, "Eof")

(* ------------------------------ C10 ------------------------------------- *)

\* C10: the scanner never fails -- after any number of calls, also calls
\* made after Eof with position beyond the buffer length, next_token
\* returns a token and no index or slice of the input is out of bounds.
C10_NeverFails == ~panicked

\* a call was made with position beyond the end of the buffer, after an
\* identifier and a number had been sliced out of it
C10_Witness ==
  /\ \E i \in 1..NCalls : calls[i].pre > Len(input)
  /\ \E i \in 1..NCalls : Returned(i, "Ident")
  /\ \E i \in 1..NCalls : Returned(i, "Int")

(* ------------------------------ C11 ------------------------------------- *)

AllTokens == [i \in 1..NCalls |-> calls[i].tok]

\* C11: driver liveness and output -- for every line read, the driver
\* builds a fresh Lexer over the line, prints the tokens next_token returns
\* in order, stops printing at the first Eof and then goes back to reading
\* the next line: the token loop ends for every line, so it never makes
\* more calls without an Eof than the line has bytes.
C11_DriverLiveness ==
  /\ pc = "scan" =>
       /\ printed = AllTokens
       /\ AllTokens = Run(new(input), NCalls)
       /\ NCalls <= Len(input)
  /\ (pc = "read" /\ read_position > 0) =>
       /\ Returned(NCalls, "Eof")
       /\ printed = SubSeq(AllTokens, 1, NCalls - 1)
       /\ AllTokens = TokensToEof(input)

(* ------------------------------ C19 ------------------------------------- *)

\* a read_line has succeeded: Lexer::new has run (it leaves read_position at 1)
LexerBuilt == read_position > 0

\* run never returned Ok, and after a read of zero bytes the loop got Eof
\* at once and printed nothing
ReturnsOnlyErr ==
  /\ result \in {"none", "Err"}
  /\ (pc = "returned") <=> (result = "Err")
  /\ (LexerBuilt /\ input = <<>> /\ pc = "scan") => NCalls = 0
  /\ (LexerBuilt /\ input = <<>> /\ pc # "scan") =>
       NCalls = 1 /\ Returned(1, "Eof") /\ printed = <<>>

\* run is left only from read_line, and with its error
LeavesOnlyOnReadError ==
  (pc # "returned" /\ pc' = "returned") =>
    /\ pc = "read"
    /\ result' = "Err"
    /\ reads' = reads + 1
    /\ UNCHANGED <<input, calls, printed>>

\* C19: driver termination only on read failure -- run leaves its outer
\* loop only when read_line returns an error, which it propagates; after a
\* successful read of zero bytes it scans the empty line, gets Eof at once,
\* prints nothing and reads again, so it never returns Ok.
C19_LeavesOnlyOnReadError ==
  []ReturnsOnlyErr /\ [][LeavesOnlyOnReadError]_vars

\* the end of standard input was read and scanned, the driver read again,
\* and that read failed
C19_Witness ==
  /\ pc = "returned" /\ result = "Err"
  /\ reads = 2 /\ input = <<>> /\ NCalls = 1 /\ printed = <<>>

(* ------------------------------ C13 ------------------------------------- *)

\* a byte that some arm of the match other than the last one takes
ClassifiedElsewhere(b) ==
  \/ b \in SingleBytes \cup {61, 33, 60, 62}
  \/ is_ascii_alphabetic(b) \/ b = 95
  \/ is_ascii_digit(b)
  \/ b = 0

\* of the bytes a call moved over, those before the classified position
\* are exactly the ones in ws, and a byte outside ws that no other arm
\* takes comes back as Illegal
SkippedExactly(ws) ==
  \A i \in 1..NCalls :
    /\ \A k \in calls[i].pre..(calls[i].post - 1) :
         k < Len(input) => ((k < calls[i].start) <=> (ByteAt(k) \in ws))
    /\ ( /\ calls[i].start < Len(input)
         /\ ByteAt(calls[i].start) \notin ws
         /\ ~ClassifiedElsewhere(ByteAt(calls[i].start)) )
       => Returned(i, "Illegal")

\* C13 as stated: skipped-byte set -- a byte is advanced past without
\* contributing to a token iff it is space, tab, newline or carriage
\* return; any other unclassified byte, such as form feed or vertical tab,
\* produces an Illegal token.
C13_SkippedBytes == SkippedExactly({32, 9, 10, 13})

\* C13 amended: the skipped bytes are space, tab, newline, form feed and
\* carriage return; any other unclassified byte, such as vertical tab,
\* produces an Illegal token.
C13_SkippedBytesWithFormFeed == SkippedExactly({32, 9, 10, 12, 13})

\* a call skipped a form feed and returned Illegal for a vertical tab
C13_Witness ==
  \E i \in 1..NCalls :
    /\ calls[i].pre < calls[i].start /\ ByteAt(calls[i].pre) = 12
    /\ ByteAt(calls[i].start) = 11 /\ Returned(i, "Illegal")

(* ------------------------------ C14 ------------------------------------- *)

DigitRunEnd(p) ==
  CHOOSE e \in p..Len(input) :
    /\ \A k \in p..(e - 1) : is_ascii_digit(ByteAt(k))
    /\ ~is_ascii_digit(ByteAt(e))

DigitRun(p) == SubSeq(input, p + 1, DigitRunEnd(p))

\* the byte the cursor must hold at position p: input[p], 0 past the end
ByteOrZero(p) == IF p < Len(input) THEN input[p + 1] ELSE 0

\* C14: run scanning leaves the cursor exactly after the run -- the text of
\* an identifier, keyword or Int token is the maximal run of ASCII
\* alphabetic (resp. digit) bytes from the classified position, and after
\* the call the byte under the cursor is the first byte after that run.
C14_RunScanning ==
  /\ \A i \in 1..NCalls :
       LET t == calls[i].tok
           st == calls[i].start
       IN /\ t.type \in KeywordNames \cup {"Ident"} =>
               /\ (IF t.type = "Ident" THEN t.text ELSE KeywordSpelling[t.type])
                    = AlphaRun(st)
               /\ calls[i].post = AlphaRunEnd(st)
          /\ t.type = "Int" =>
               /\ t.text = DigitRun(st)
               /\ calls[i].post = DigitRunEnd(st)
  /\ (NCalls > 0 /\ calls[NCalls].tok.type \in KeywordNames \cup {"Ident", "Int"}) =>
       /\ position = calls[NCalls].post
       /\ ch = ByteOrZero(position)

\* a letter directly followed by a digit: Ident("a"), then Int("5") from
\* the very next position
C14_Witness ==
  /\ NCalls = 2
  /\ calls[1].tok = TokText("Ident", <<97>>)
  /\ calls[2].tok = TokText("Int", <<53>>) /\ calls[2].start = 1

(* ------------------------------ C15 ------------------------------------- *)

SingleOpOf(b) ==
  CASE b = 61 -> Tok("Assign")
    [] b = 33 -> Tok("Bang")
    [] b = 60 -> Tok("LessThan")
    [] b = 62 -> Tok("GreaterThan")

\* C15: unmatched lookahead consumes one byte only -- when the byte under
\* the cursor is '=', '!', '<' or '>' and the next byte is not '=' (or there
\* is none), next_token returns Assign, Bang, LessThan or GreaterThan,
\* consumes exactly one byte, and the next token starts at the following
\* byte.
C15_UnmatchedLookahead ==
  \A i \in 1..NCalls :
    LET st == calls[i].start
    IN (ByteAt(st) \in {61, 33, 60, 62} /\ ByteAt(st + 1) # 61) =>
         /\ calls[i].tok = SingleOpOf(ByteAt(st))
         /\ calls[i].post = st + 1
         /\ i < NCalls =>
              /\ calls[i + 1].pre = st + 1
              /\ ~is_ascii_whitespace(ByteAt(st + 1)) => calls[i + 1].start = st + 1

\* "=5": Assign from one byte, then Int("5") from the byte after it
C15_Witness ==
  /\ NCalls >= 2
  /\ calls[1].tok = Tok("Assign") /\ calls[1].post = 1
  /\ calls[2].tok = TokText("Int", <<53>>) /\ calls[2].start = 1

(* ------------------------------ C16 ------------------------------------- *)

\* C16: cursor coherence -- in every state reached from Lexer::new by calls
\* of next_token, read_position = position + 1 and ch is input[position],
\* or 0 when position is not below the length; right after Lexer::new
\* position is 0.
C16_CursorCoherence ==
  /\ read_position = position + 1
  /\ ch = ByteOrZero(position)
  /\ NCalls = 0 => position = 0

\* calls after Eof have taken position past the end of a non-empty input
C16_Witness == Len(input) > 0 /\ position > Len(input) /\ ch = 0

(* ------------------------------ C17 ------------------------------------- *)

PeekAgrees(l) ==
  LET p == peek_char(l)
  IN /\ p.ok
     /\ p.val = (IF l.read_position < Len(l.input)
                 THEN l.input[l.read_position + 1] ELSE 0)
     /\ p.val = read_char(l).ch
     /\ p.val # 61 => TwoByte(l, "Equal", "Assign").lex = l

\* C17: lookahead is pure -- peek_char returns input[read_position], or 0
\* when read_position is not below the length, which is the value ch takes
\* after the next read_char, and the lexer an unmatched lookahead hands on
\* is the one it was given.
C17_PeekIsPure == PeekAgrees(Lexer) /\ PeekAgrees(skip_whitespace(Lexer))

\* after a call, the next call will classify '=', '!', '<' or '>' and look
\* ahead at a byte of the input
C17_Witness ==
  /\ NCalls > 0
  /\ skip_whitespace(Lexer).ch \in {61, 33, 60, 62}
  /\ skip_whitespace(Lexer).read_position < Len(input)

(* ------------------------------ C18 ------------------------------------- *)

NoNul == \A k \in 1..Len(input) : input[k] # 0

\* the number of input bytes a token stands for
SpanLen(t) ==
  CASE t.type \in {"Ident", "Int"} -> Len(t.text)
    [] t.type \in KeywordNames -> Len(KeywordSpelling[t.type])
    [] t.type \in {"Equal", "NotEqual", "LessThanOrEqual", "GreaterThanOrEqual"} -> 2
    [] t.type = "Eof" -> 0
    [] OTHER -> 1

\* the calls up to the first Eof that skipped, or took into a token, byte k
Skipping(k) ==
  {i \in 1..FirstEof : calls[i].pre <= k /\ k < calls[i].start}

Taking(k) ==
  {i \in 1..FirstEof :
     calls[i].start <= k /\ k < calls[i].start + SpanLen(calls[i].tok)}

\* C18: byte conservation -- for an input without a 0 byte, up to the first
\* Eof every input byte is accounted for exactly once: the positions
\* skipped as whitespace and the spans of the returned tokens partition
\* 0..len-1 in order, no byte in two tokens and none left unconsumed.
C18_ByteConservation ==
  (NoNul /\ NCalls >= Len(input) + 1) =>
    /\ EofReturned
    /\ \A k \in 0..(Len(input) - 1) :
         Cardinality(Skipping(k)) + Cardinality(Taking(k)) = 1
    /\ \A i \in 1..(FirstEof - 1) :
         calls[i].start + SpanLen(calls[i].tok) = calls[i + 1].pre

====
